---- MODULE Spec2Model ----
(***************************************************************************)
(* A model of the S-expression reader of src/parse.rs.                     *)
(*                                                                         *)
(* A text (&str) is a sequence of characters; each character has the       *)
(* number of bytes of its UTF-8 encoding, because the code indexes and     *)
(* slices by byte while it counts by character.  The leaf parsers and the  *)
(* scanner are operators; the loop of parse and the loop and recursion of  *)
(* list_parse are actions over an explicit stack of list_parse frames.     *)
(***************************************************************************)
EXTENDS Integers, Sequences, FiniteSets, TLC

(***************************************************************************)
(* Bounds of the model.                                                    *)
(***************************************************************************)
\* longest text over Alphabet given to parse
MaxLen == 4
\* most digits of a literal of the family of long integer literals
MaxDigits == 10
\* longest text over ScanAlphabet given to read_until on its own
MaxScanLen == 4

(***************************************************************************)
(* Characters.                                                             *)
(***************************************************************************)
\* char::is_digit(10): the ASCII decimal digits
Digits == {"0", "1", "2", "3", "4", "5", "6", "7", "8", "9"}

DigitVal(c) ==
    CASE c = "0" -> 0 [] c = "1" -> 1 [] c = "2" -> 2 [] c = "3" -> 3
      [] c = "4" -> 4 [] c = "5" -> 5 [] c = "6" -> 6 [] c = "7" -> 7
      [] c = "8" -> 8 [] c = "9" -> 9

\* the characters the regex \s matches: the ASCII ones, and U+00A0 standing
\* for the ones UTF-8 encodes in more than one byte
AsciiWhitespace == {" ", "\t", "\n", "\r"}
NBSP == "U+00A0"
WHITESPACE == AsciiWhitespace \cup {NBSP}

\* U+00E9, a letter UTF-8 encodes in two bytes
EACUTE == "U+00E9"

\* char::len_utf8
Width(c) == IF c \in {NBSP, EACUTE} THEN 2 ELSE 1

\* the characters the texts of the model are made of
Alphabet == {"1", "-", ".", "(", ")", "\"", " ", "\t", "a", EACUTE, NBSP}

\* every character the model knows
Chars == Alphabet \cup Digits \cup WHITESPACE

(***************************************************************************)
(* Texts: byte lengths and byte slices.                                    *)
(***************************************************************************)
RECURSIVE ByteLen(_)
\* str::len: the length in bytes
ByteLen(s) == IF s = <<>> THEN 0 ELSE Width(Head(s)) + ByteLen(Tail(s))

\* the byte offsets at which a character of s starts, and its end
Boundaries(s) == {ByteLen(SubSeq(s, 1, k)) : k \in 0..Len(s)}

\* the number of characters before byte offset b, a boundary of s
CharsBefore(s, b) == CHOOSE k \in 0..Len(s) : ByteLen(SubSeq(s, 1, k)) = b

\* (&s[..b], &s[b..]); slicing off a character boundary panics
SplitAt(s, b) ==
    IF b \in Boundaries(s)
    THEN [panic |-> FALSE,
          pre   |-> SubSeq(s, 1, CharsBefore(s, b)),
          post  |-> SubSeq(s, CharsBefore(s, b) + 1, Len(s))]
    ELSE [panic |-> TRUE, pre |-> <<>>, post |-> <<>>]

\* str::starts_with(char)
StartsWith(s, c) == s # <<>> /\ Head(s) = c

(***************************************************************************)
(* read_until: the token boundary scanner.  Stop is the set of characters  *)
(* the stop condition holds of.                                            *)
(***************************************************************************)
\* the 0-based character index of the first character the stop condition
\* holds of, or -1
FirstStop(s, Stop) ==
    IF \E i \in 1..Len(s) : s[i] \in Stop
    THEN (CHOOSE i \in 1..Len(s) :
              s[i] \in Stop /\ \A j \in 1..(i - 1) : s[j] \notin Stop) - 1
    ELSE -1

\* tok_end when the loop ends: the character index of the first stop
\* character; without one, len if some character index equals len - 1, else 0
TokEnd(s, Stop) ==
    IF FirstStop(s, Stop) >= 0
    THEN FirstStop(s, Stop)
    ELSE IF \E i \in 0..(Len(s) - 1) : i = ByteLen(s) - 1
         THEN ByteLen(s)
         ELSE 0

ReadUntil(s, Stop) ==
    LET cut == SplitAt(s, TokEnd(s, Stop))
    IN  [panic |-> cut.panic, tok |-> cut.pre, rest |-> cut.post]

(***************************************************************************)
(* eat_whitespace.                                                         *)
(***************************************************************************)
RECURSIVE EatWhitespace(_)
\* each turn of the loop drops one byte: &s[1..] panics inside a character
EatWhitespace(s) ==
    IF s # <<>> /\ Head(s) \in WHITESPACE
    THEN IF Width(Head(s)) = 1
         THEN EatWhitespace(Tail(s))
         ELSE [panic |-> TRUE, s |-> s]
    ELSE [panic |-> FALSE, s |-> s]

(***************************************************************************)
(* Nodes (SExpr) and the results of the parsers (ParseResult, or a panic). *)
(***************************************************************************)
SInt(n)   == [tag |-> "SInt", int |-> n]
SFloat(f) == [tag |-> "SFloat", flt |-> f]
SSym(t)   == [tag |-> "SSym", text |-> t]
SStr(t)   == [tag |-> "SStr", text |-> t]
SList(l)  == [tag |-> "SList", els |-> l]
NoNode    == [tag |-> "none"]

\* a parser that returns: ParseResult { parsed, rest }
Parsed(node, rest) == [err |-> "none", parsed |-> node, rest |-> rest]
\* a parser that panics; kind names the panic
Panic(kind) == [err |-> kind, parsed |-> NoNode, rest |-> <<>>]

(***************************************************************************)
(* str::parse::<i32> and str::parse::<f32>, on the texts num_parse can     *)
(* hand them: digits, '.' and '-'.                                         *)
(***************************************************************************)
I32Max == 2147483647
I32Min == (-2147483647) - 1

RECURSIVE AccI32(_, _, _)
\* the digits left, folded into acc with checked_mul and checked_add (or
\* checked_sub for a negative literal); any other character is an error
AccI32(ds, neg, acc) ==
    IF ds = <<>> THEN [ok |-> TRUE, val |-> acc]
    ELSE IF Head(ds) \notin Digits THEN [ok |-> FALSE, val |-> 0]
    ELSE LET d == DigitVal(Head(ds))
         IN  IF neg
             THEN IF acc >= (I32Min + d + 9) \div 10
                  THEN AccI32(Tail(ds), neg, acc * 10 - d)
                  ELSE [ok |-> FALSE, val |-> 0]
             ELSE IF acc <= (I32Max - d) \div 10
                  THEN AccI32(Tail(ds), neg, acc * 10 + d)
                  ELSE [ok |-> FALSE, val |-> 0]

\* a faulty str::parse::<i32>: the digits folded as a positive number and the
\* sign applied last, so that the least i32 is refused
ParseI32SignLast(t) ==
    IF t = <<>> THEN [ok |-> FALSE, val |-> 0]
    ELSE IF Head(t) = "-"
         THEN IF Tail(t) = <<>> THEN [ok |-> FALSE, val |-> 0]
              ELSE LET m == AccI32(Tail(t), FALSE, 0)
                   IN  [ok |-> m.ok, val |-> 0 - m.val]
         ELSE AccI32(t, FALSE, 0)

ParseI32(t) ==
    IF t = <<>> THEN [ok |-> FALSE, val |-> 0]
    ELSE IF Head(t) = "-"
         THEN IF Tail(t) = <<>> THEN [ok |-> FALSE, val |-> 0]
              ELSE AccI32(Tail(t), TRUE, 0)
         ELSE AccI32(t, FALSE, 0)

RECURSIVE StripLeadingZeros(_)
StripLeadingZeros(ds) ==
    IF ds # <<>> /\ Head(ds) = "0" THEN StripLeadingZeros(Tail(ds)) ELSE ds

RECURSIVE StripTrailingZeros(_)
StripTrailingZeros(ds) ==
    IF ds # <<>> /\ ds[Len(ds)] = "0"
    THEN StripTrailingZeros(SubSeq(ds, 1, Len(ds) - 1))
    ELSE ds

\* the value of a decimal literal: its sign, the digits of its integer part
\* and of its fraction without the zeros that do not count (-0.0 = 0.0).
\* The rounding to 24 bits of mantissa is left out: literals of at most 7
\* digits that differ here differ as f32 too.
FloatVal(neg, ip, fp) ==
    LET i == StripLeadingZeros(ip)
        f == StripTrailingZeros(fp)
    IN  [neg |-> neg /\ (i # <<>> \/ f # <<>>), ip |-> i, fp |-> f]

\* an optional sign, then digits with at most one '.', and a digit somewhere
ParseF32(t) ==
    LET neg  == t # <<>> /\ Head(t) = "-"
        body == IF neg THEN Tail(t) ELSE t
        dots == {i \in 1..Len(body) : body[i] = "."}
        dot  == IF dots = {} THEN Len(body) + 1 ELSE CHOOSE i \in dots : TRUE
        ip   == SubSeq(body, 1, dot - 1)
        fp   == SubSeq(body, dot + 1, Len(body))
    IN  IF /\ Cardinality(dots) <= 1
           /\ \A i \in 1..Len(body) : body[i] \in Digits \cup {"."}
           /\ \E i \in 1..Len(body) : body[i] \in Digits
        THEN [ok |-> TRUE, val |-> FloatVal(neg, ip, fp)]
        ELSE [ok |-> FALSE, val |-> FloatVal(FALSE, <<>>, <<>>)]

(***************************************************************************)
(* The leaf parsers.                                                       *)
(***************************************************************************)
\* a faulty stop condition of num_parse: '-' ends the token too
NumStopAtSign == Chars \ (Digits \cup {"."})

\* the stop condition of num_parse: not (digit, '.' or '-')
NumStop == Chars \ (Digits \cup {".", "-"})

NumParse(s) ==
    LET ru == ReadUntil(s, NumStop)
        i  == ParseI32(ru.tok)
        f  == ParseF32(ru.tok)
    IN  IF ru.panic THEN Panic("CharBoundary")
        ELSE IF i.ok THEN Parsed(SInt(i.val), ru.rest)
        ELSE IF f.ok THEN Parsed(SFloat(f.val), ru.rest)
        ELSE Panic("MalformedNumber")

\* the stop condition of sym_parse: a space or ')'
SymStop == {" ", ")"}

\* a faulty sym_parse: without the check that the symbol is not empty
SymParseUnchecked(s) ==
    LET ru == ReadUntil(s, SymStop)
    IN  IF ru.panic THEN Panic("CharBoundary")
        ELSE Parsed(SSym(ru.tok), ru.rest)

SymParse(s) ==
    LET ru == ReadUntil(s, SymStop)
    IN  IF ru.panic THEN Panic("CharBoundary")
        ELSE IF ru.tok = <<>> THEN Panic("EmptySymbol")
        ELSE Parsed(SSym(ru.tok), ru.rest)

\* the stop condition of str_parse: '"'
StrStop == {"\""}

StrParse(s) ==
    IF ~StartsWith(s, "\"") THEN Panic("ExpectedQuote")
    ELSE LET ru == ReadUntil(Tail(s), StrStop)
         IN  IF ru.panic THEN Panic("CharBoundary")
             ELSE IF ~StartsWith(ru.rest, "\"") THEN Panic("UnterminatedString")
             ELSE Parsed(SStr(ru.tok), Tail(ru.rest))

\* s_parse on an input that does not start a list
SParseLeaf(s) ==
    IF s = <<>> THEN Panic("UnexpectedEndOfInput")
    ELSE IF Head(s) \in Digits \/ Head(s) = "-" THEN NumParse(s)
    ELSE IF Head(s) = "\"" THEN StrParse(s)
    ELSE SymParse(s)

(***************************************************************************)
(* The texts the model runs on.                                            *)
(***************************************************************************)
\* the texts over A of at most n characters
StrsUpTo(A, n) == UNION {[1..k -> A] : k \in 0..n}

\* integer literals at both ends of the range of i32
EdgeLiterals ==
    { <<"2", "1", "4", "7", "4", "8", "3", "6", "4", "7">>,
      <<"2", "1", "4", "7", "4", "8", "3", "6", "4", "8">>,
      <<"-", "2", "1", "4", "7", "4", "8", "3", "6", "4", "8">>,
      <<"-", "2", "1", "4", "7", "4", "8", "3", "6", "4", "9">> }

\* integer literals of up to MaxDigits digits, signed or not
LongLiterals ==
    { sign \o ds : sign \in {<<>>, <<"-">>},
                   ds \in StrsUpTo({"0", "9"}, MaxDigits) \ {<<>>} }

Inputs == StrsUpTo(Alphabet, MaxLen) \cup LongLiterals \cup EdgeLiterals

\* the characters of the texts read_until is run on by itself
ScanAlphabet == {"a", ")", EACUTE}

(***************************************************************************)
(* The state.                                                              *)
(***************************************************************************)
VARIABLES
    call,      \* the function called: "parse" or "read_until"
    input,     \* its argument s
    stopSet,   \* read_until alone: the characters its stop condition holds of
    scan,      \* read_until alone: what it returned
    copy,      \* the cursor: `copy` of parse, or of the innermost list_parse
    stack,     \* the list_parse calls in progress, outermost first: s and els
    exprs,     \* `exprs` of parse
    pc,        \* where the call is; "idle" before it
    err,       \* the panic that ended it, or "none"
    ret,       \* the last ParseResult s_parse returned, with the input given
    first      \* the text and the outcome of the call made before this one

vars == <<call, input, stopSet, scan, copy, stack, exprs, pc, err, ret, first>>

NoScan  == [panic |-> FALSE, tok |-> <<>>, rest |-> <<>>]
NoRet   == [given |-> <<>>, parsed |-> NoNode, rest |-> <<>>]
NoFirst == [called |-> FALSE, input |-> <<>>, err |-> "none", exprs |-> <<>>]

\* nothing has been called yet
Init ==
    /\ call = "none"
    /\ input = <<>>
    /\ stopSet = {}
    /\ scan = NoScan
    /\ copy = <<>>
    /\ stack = <<>>
    /\ exprs = <<>>
    /\ pc = "idle"
    /\ err = "none"
    /\ ret = NoRet
    /\ first = NoFirst

(***************************************************************************)
(* parse, s_parse and list_parse, one step per token.                      *)
(***************************************************************************)
\* a panic: the process ends where it is
Fail(kind) ==
    /\ pc' = "failed"
    /\ err' = kind
    /\ UNCHANGED <<copy, stack, exprs, ret>>

\* s_parse returns node and rest to its caller, parse or the list_parse
\* whose frame is the last of stk: the caller pushes the node and skips
\* the whitespace after it
Deliver(given, node, rest, stk) ==
    LET w == EatWhitespace(rest)
    IN  IF w.panic
        THEN Fail("CharBoundary")
        ELSE /\ ret' = [given |-> given, parsed |-> node, rest |-> rest]
             /\ copy' = w.s
             /\ err' = "none"
             /\ IF stk = <<>>
                THEN /\ exprs' = Append(exprs, node)
                     /\ stack' = stk
                     /\ pc' = "top"
                ELSE /\ exprs' = exprs
                     /\ stack' = [stk EXCEPT ![Len(stk)].els = Append(@, node)]
                     /\ pc' = "check"

\* parse is called on s: before its loop it skips the leading whitespace
ParseEntry ==
    /\ pc = "idle"
    /\ \E s \in Inputs :
          /\ call' = "parse"
          /\ input' = s
          /\ LET w == EatWhitespace(s)
             IN  IF w.panic
                 THEN Fail("CharBoundary")
                 ELSE /\ copy' = w.s
                      /\ pc' = "top"
                      /\ UNCHANGED <<stack, exprs, err, ret>>
    /\ UNCHANGED <<stopSet, scan, first>>

\* parse: the loop ends on an empty cursor
ParseReturn ==
    /\ pc = "top"
    /\ copy = <<>>
    /\ pc' = "done"
    /\ UNCHANGED <<call, input, stopSet, scan, copy, stack, exprs, err, ret, first>>

\* s_parse on a number, a string or a symbol, called by parse or list_parse
SParseAtom ==
    /\ pc \in {"top", "elem"}
    /\ copy # <<>>
    /\ ~StartsWith(copy, "(")
    /\ LET r == SParseLeaf(copy)
       IN  IF r.err # "none"
           THEN Fail(r.err)
           ELSE Deliver(copy, r.parsed, r.rest, stack)
    /\ UNCHANGED <<call, input, stopSet, scan, first>>

\* s_parse called by list_parse on an empty cursor
SParseEmpty ==
    /\ pc = "elem"
    /\ copy = <<>>
    /\ Fail(SParseLeaf(copy).err)
    /\ UNCHANGED <<call, input, stopSet, scan, first>>

\* a faulty list_parse: it looks for ')' before its first element, and
\* returns a list without elements
ListOpenOrEmpty ==
    /\ pc \in {"top", "elem"}
    /\ StartsWith(copy, "(")
    /\ LET w == EatWhitespace(Tail(copy))
       IN  IF w.panic
           THEN Fail("CharBoundary")
           ELSE IF StartsWith(w.s, ")")
           THEN Deliver(copy, SList(<<>>), Tail(w.s), stack)
           ELSE /\ stack' = Append(stack, [s |-> copy, els |-> <<>>])
                /\ copy' = w.s
                /\ pc' = "elem"
                /\ UNCHANGED <<exprs, err, ret>>
    /\ UNCHANGED <<call, input, stopSet, scan, first>>

\* s_parse on '(': list_parse starts, eats the parenthesis and whitespace
ListOpen ==
    /\ pc \in {"top", "elem"}
    /\ StartsWith(copy, "(")
    /\ LET w == EatWhitespace(Tail(copy))
       IN  IF w.panic
           THEN Fail("CharBoundary")
           ELSE /\ stack' = Append(stack, [s |-> copy, els |-> <<>>])
                /\ copy' = w.s
                /\ pc' = "elem"
                /\ UNCHANGED <<exprs, err, ret>>
    /\ UNCHANGED <<call, input, stopSet, scan, first>>

\* a faulty list_parse: without the check for the end of the input after an
\* element, so that the loop goes on to s_parse
ListUnclosedUnchecked ==
    /\ pc = "check"
    /\ copy = <<>>
    /\ pc' = "elem"
    /\ UNCHANGED <<call, input, stopSet, scan, copy, stack, exprs, err, ret, first>>

\* list_parse, after an element: no input left
ListUnclosed ==
    /\ pc = "check"
    /\ copy = <<>>
    /\ Fail("UnclosedList")
    /\ UNCHANGED <<call, input, stopSet, scan, first>>

\* list_parse, after an element: neither the end nor ')', so another turn
ListNext ==
    /\ pc = "check"
    /\ copy # <<>>
    /\ ~StartsWith(copy, ")")
    /\ pc' = "elem"
    /\ UNCHANGED <<call, input, stopSet, scan, copy, stack, exprs, err, ret, first>>

\* list_parse, after an element: ')' ends the list, which goes to the caller
ListClose ==
    /\ pc = "check"
    /\ StartsWith(copy, ")")
    /\ LET frame == stack[Len(stack)]
       IN  Deliver(frame.s, SList(frame.els), Tail(copy),
                   SubSeq(stack, 1, Len(stack) - 1))
    /\ UNCHANGED <<call, input, stopSet, scan, first>>

\* read_until is called by itself, on s and a stop condition
ScanCall ==
    /\ pc = "idle"
    /\ \E s \in StrsUpTo(ScanAlphabet, MaxScanLen), Stop \in SUBSET ScanAlphabet :
          /\ call' = "read_until"
          /\ input' = s
          /\ stopSet' = Stop
          /\ scan' = ReadUntil(s, Stop)
    /\ pc' = "scanned"
    /\ UNCHANGED <<copy, stack, exprs, err, ret, first>>

(***************************************************************************)
(* A second call, as the tests make them: parse on the same text with      *)
(* every run of whitespace between tokens replaced by one space.           *)
(***************************************************************************)
RECURSIVE CollapseFrom(_, _, _)
\* t with its runs of whitespace outside string literals replaced by " ";
\* inStr: t starts inside a literal; prevWs: the run has already begun
CollapseFrom(t, inStr, prevWs) ==
    IF t = <<>> THEN <<>>
    ELSE IF inStr
         THEN <<Head(t)>> \o CollapseFrom(Tail(t), Head(t) # "\"", FALSE)
    ELSE IF Head(t) \in AsciiWhitespace
         THEN (IF prevWs THEN <<>> ELSE <<" ">>) \o CollapseFrom(Tail(t), FALSE, TRUE)
    ELSE <<Head(t)>> \o CollapseFrom(Tail(t), Head(t) = "\"", FALSE)

Collapse(t) == CollapseFrom(t, FALSE, FALSE)

Reparse ==
    /\ call = "parse"
    /\ pc \in {"done", "failed"}
    /\ ~first.called
    /\ Collapse(input) # input
    /\ first' = [called |-> TRUE, input |-> input, err |-> err,
                 exprs |-> IF pc = "done" THEN exprs ELSE <<>>]
    /\ input' = Collapse(input)
    /\ LET w == EatWhitespace(Collapse(input))
       IN  IF w.panic
           THEN /\ pc' = "failed"
                /\ err' = "CharBoundary"
                /\ copy' = <<>>
           ELSE /\ pc' = "top"
                /\ err' = "none"
                /\ copy' = w.s
    /\ stack' = <<>>
    /\ exprs' = <<>>
    /\ ret' = NoRet
    /\ UNCHANGED <<call, stopSet, scan>>

Next ==
    \/ ParseEntry
    \/ ParseReturn
    \/ SParseAtom
    \/ SParseEmpty
    \/ ListOpen
    \/ ListUnclosed
    \/ ListNext
    \/ ListClose
    \/ ScanCall
    \/ Reparse

Spec == Init /\ [][Next]_vars

(***************************************************************************)
(* The notation as spec.md describes it, for stating the properties:       *)
(* whitespace is space, tab, newline and carriage return; the delimiters   *)
(* are the parentheses and the double quote; an atom is a run of the other *)
(* characters, a number if it starts with a digit or '-', else a symbol.   *)
(***************************************************************************)
Delims == {"(", ")", "\""}

Terminated == pc \in {"done", "failed"}

\* an optional '-', then one or more digits
IsIntLit(t) ==
    LET body == IF StartsWith(t, "-") THEN Tail(t) ELSE t
    IN  body # <<>> /\ \A i \in 1..Len(body) : body[i] \in Digits

\* an optional '-', then digits with at most one '.' among them
IsFloatLit(t) ==
    LET body == IF StartsWith(t, "-") THEN Tail(t) ELSE t
    IN  /\ \E i \in 1..Len(body) : body[i] \in Digits
        /\ \A i \in 1..Len(body) : body[i] \in Digits \cup {"."}
        /\ \A i, j \in 1..Len(body) : body[i] = "." /\ body[j] = "." => i = j

\* a <= b for digit sequences of one length
DigitsLeq(a, b) ==
    \/ a = b
    \/ \E i \in 1..Len(a) :
          /\ \A j \in 1..(i - 1) : a[j] = b[j]
          /\ DigitVal(a[i]) < DigitVal(b[i])

\* the integer literal t denotes a number from -2^31 to 2^31 - 1
FitsI32(t) ==
    LET neg == StartsWith(t, "-")
        sig == StripLeadingZeros(IF neg THEN Tail(t) ELSE t)
        lim == IF neg THEN <<"2", "1", "4", "7", "4", "8", "3", "6", "4", "8">>
                      ELSE <<"2", "1", "4", "7", "4", "8", "3", "6", "4", "7">>
    IN  Len(sig) < Len(lim) \/ (Len(sig) = Len(lim) /\ DigitsLeq(sig, lim))

RECURSIVE DigitsValue(_, _, _)
DigitsValue(ds, neg, acc) ==
    IF ds = <<>> THEN acc
    ELSE DigitsValue(Tail(ds), neg,
                     IF neg THEN acc * 10 - DigitVal(Head(ds))
                            ELSE acc * 10 + DigitVal(Head(ds)))

\* the number an integer literal that fits i32 denotes
LitValue(t) ==
    IF StartsWith(t, "-") THEN DigitsValue(Tail(t), TRUE, 0)
    ELSE DigitsValue(t, FALSE, 0)

\* the float a float literal denotes
LitFloat(t) ==
    LET neg  == StartsWith(t, "-")
        body == IF neg THEN Tail(t) ELSE t
        dot  == IF \E i \in 1..Len(body) : body[i] = "."
                THEN CHOOSE i \in 1..Len(body) : body[i] = "."
                ELSE Len(body) + 1
    IN  FloatVal(neg, SubSeq(body, 1, dot - 1), SubSeq(body, dot + 1, Len(body)))

RECURSIVE LongestPrefix(_, _)
\* the longest prefix of t none of whose characters is in Stop
LongestPrefix(t, Stop) ==
    IF t = <<>> \/ Head(t) \in Stop THEN <<>>
    ELSE <<Head(t)>> \o LongestPrefix(Tail(t), Stop)

\* t without its first n characters
Drop(t, n) == SubSeq(t, n + 1, Len(t))

\* a is b without one or more of its first characters
StrictSuffix(a, b) == Len(a) < Len(b) /\ a = Drop(b, Len(b) - Len(a))

RECURSIVE SubNodes(_)
\* a node and the nodes inside it, at any depth
SubNodes(n) ==
    {n} \cup (IF n.tag = "SList"
              THEN UNION {SubNodes(n.els[i]) : i \in 1..Len(n.els)}
              ELSE {})

NodesOf(nodes) == UNION {SubNodes(nodes[i]) : i \in 1..Len(nodes)}


(***************************************************************************)
(* Integer literals.                                                       *)
(***************************************************************************)
\* C2 as stated: for every valid integer literal (an optional '-' and one
\* or more digits), parse returns exactly one node, an SInt holding the
\* number the literal denotes, with the whole token consumed.
C2_EveryIntLiteral ==
    (call = "parse" /\ Terminated /\ IsIntLit(input)) =>
        /\ pc = "done"
        /\ Len(exprs) = 1
        /\ exprs[1].tag = "SInt"
        /\ (FitsI32(input) => exprs[1].int = LitValue(input))
        /\ ret.given = input /\ ret.rest = <<>>

\* C2 amended: for every valid integer literal parse returns exactly one
\* node with the whole token consumed; the node is the SInt of the number
\* the literal denotes when that number fits a signed 32-bit integer, and
\* an SFloat when it does not.
C2_IntLiteral ==
    (call = "parse" /\ Terminated /\ IsIntLit(input)) =>
        /\ pc = "done"
        /\ Len(exprs) = 1
        /\ IF FitsI32(input)
           THEN exprs[1] = SInt(LitValue(input))
           ELSE exprs[1].tag = "SFloat"
        /\ ret.given = input /\ ret.rest = <<>>

\* the least i32 has been parsed
C2_Witness ==
    /\ pc = "done"
    /\ input = <<"-", "2", "1", "4", "7", "4", "8", "3", "6", "4", "8">>
    /\ exprs = <<SInt(I32Min)>>

(***************************************************************************)
(* Symbols.                                                                *)
(***************************************************************************)
\* C3: every SSym node of a tree parse returns, at any depth, holds a text
\* that is not empty and has no whitespace character, no '(', no ')' and
\* no '"'.
C3_SymbolText ==
    pc = "done" =>
        \A n \in NodesOf(exprs) :
            n.tag = "SSym" =>
                /\ n.text # <<>>
                /\ \A i \in 1..Len(n.text) : n.text[i] \notin WHITESPACE \cup Delims

(***************************************************************************)
(* The end of the input inside a list.                                     *)
(***************************************************************************)
\* list_parse has the cursor and the input has nothing left
ExhaustedInList == call = "parse" /\ pc \in {"elem", "check"} /\ copy = <<>>

\* C5 as stated: whenever the input is exhausted inside a list, whether
\* the list has elements already or none, the parse fails with UnclosedList.
C5_AlwaysUnclosedList ==
    [][ExhaustedInList => (pc' = "failed" /\ err' = "UnclosedList")]_vars

\* C5 amended: when the input is exhausted inside a list that has parsed
\* at least one element, the parse fails with UnclosedList; when the list
\* has no element yet, as in "(" or "(  ", it fails with
\* UnexpectedEndOfInput, the panic of s_parse on an empty input.
C5_UnclosedList ==
    [][ExhaustedInList =>
          /\ pc' = "failed"
          /\ err' = IF stack[Len(stack)].els # <<>>
                    THEN "UnclosedList"
                    ELSE "UnexpectedEndOfInput"]_vars

\* a list of two elements met the end of the input
C5_Witness ==
    /\ pc = "failed"
    /\ err = "UnclosedList"
    /\ copy = <<>>
    /\ stack # <<>>
    /\ Len(stack[Len(stack)].els) = 2

(***************************************************************************)
(* Malformed numbers.                                                      *)
(***************************************************************************)
\* the characters of a number token
NumChars == Digits \cup {".", "-"}

\* s_parse is about to be given an input whose first character is a digit
\* or '-'
AtNumber ==
    /\ call = "parse"
    /\ pc \in {"top", "elem"}
    /\ copy # <<>>
    /\ Head(copy) \in Digits \cup {"-"}

\* C6: on an input that starts with a digit or '-', the token is the
\* longest prefix of digits, '.' and '-'; if it is neither an integer nor a
\* float literal the parse fails with MalformedNumber and no node comes of
\* any part of the token; otherwise one number node comes of the whole
\* token (the parse can still fail after it, in eat_whitespace).
C6_MalformedNumber ==
    [][AtNumber =>
          LET tok == LongestPrefix(copy, Chars \ NumChars)
          IN  IF IsIntLit(tok) \/ IsFloatLit(tok)
              THEN \/ pc' = "failed" /\ err' = "CharBoundary"
                   \/ /\ pc' # "failed"
                      /\ ret'.given = copy
                      /\ ret'.parsed.tag \in {"SInt", "SFloat"}
                      /\ tok \o ret'.rest = copy
              ELSE /\ pc' = "failed"
                   /\ err' = "MalformedNumber"
                   /\ exprs' = exprs
                   /\ stack' = stack
                   /\ ret' = ret]_vars

\* "1-1" was taken as one token and refused
C6_Witness ==
    /\ pc = "failed"
    /\ err = "MalformedNumber"
    /\ copy = <<"1", "-", "1">>

(***************************************************************************)
(* String literals.                                                        *)
(***************************************************************************)
\* s_parse is about to be given an input whose first character is '"'
AtString ==
    /\ call = "parse"
    /\ pc \in {"top", "elem"}
    /\ StartsWith(copy, "\"")

\* C7: on an input that starts with '"', if a second '"' comes later the
\* string parser returns the SStr of the text between the two, whatever it
\* holds, and the rest starts just past the second quote; if none comes it
\* fails with UnterminatedString.  (Where str_parse returns, the parse can
\* still fail after it, in the eat_whitespace of its caller.)
C7_StringLiteral ==
    [][AtString =>
          LET body  == LongestPrefix(Tail(copy), {"\""})
              after == Drop(copy, Len(body) + 2)
          IN  IF Len(body) + 1 < Len(copy)
              THEN \/ /\ EatWhitespace(after).panic
                      /\ pc' = "failed" /\ err' = "CharBoundary"
                   \/ /\ pc' # "failed"
                      /\ ret' = [given |-> copy, parsed |-> SStr(body),
                                 rest |-> after]
              ELSE pc' = "failed" /\ err' = "UnterminatedString"]_vars

(***************************************************************************)
(* read_until.                                                             *)
(***************************************************************************)
\* C8: for every text and every stop condition, read_until returns a
\* prefix and a remainder that make up the text, the prefix is the longest
\* one with no character the stop condition holds of, and the remainder is
\* empty exactly when the condition holds of no character of the text.
C8_ReadUntil ==
    (call = "read_until" /\ pc = "scanned") =>
        /\ ~scan.panic
        /\ scan.tok \o scan.rest = input
        /\ scan.tok = LongestPrefix(input, stopSet)
        /\ (scan.rest = <<>>) <=> (\A i \in 1..Len(input) : input[i] \notin stopSet)

(***************************************************************************)
(* Lists without elements.                                                 *)
(***************************************************************************)
\* t has a '(' followed, after optional whitespace, directly by ')'
HasEmptyParens(t) ==
    \E i, j \in 1..Len(t) :
        /\ i < j
        /\ t[i] = "(" /\ t[j] = ")"
        /\ \A k \in (i + 1)..(j - 1) : t[k] \in WHITESPACE

NoEmptyList(nodes) ==
    \A n \in NodesOf(nodes) : n.tag = "SList" => n.els # <<>>

\* C9 as stated: no SList of a tree parse returns has zero elements, and
\* every input in which '(' is followed, after optional whitespace,
\* directly by ')' makes the parse fail.
C9_EveryEmptyParens ==
    /\ pc = "done" => NoEmptyList(exprs)
    /\ (call = "parse" /\ Terminated /\ HasEmptyParens(input)) => pc = "failed"

\* list_parse has eaten its '(' and the whitespace after it and is at ')'
AtEmptyList == call = "parse" /\ pc = "elem" /\ StartsWith(copy, ")")

\* C9 amended: no SList that s_parse returns or that is in a tree parse
\* returns has zero elements, and whenever a '(' that starts a list (one
\* s_parse is dispatched on, not one inside a string literal or a symbol)
\* is followed, after optional whitespace, directly by ')', the parse
\* fails, with the panic of sym_parse on an empty symbol.
C9_NoEmptyList ==
    /\ [](NoEmptyList(exprs) /\ NoEmptyList(<<ret.parsed>>))
    /\ [][AtEmptyList => (pc' = "failed" /\ err' = "EmptySymbol")]_vars

\* "( )" inside a list: the inner list had no element and the parse failed
C9_Witness ==
    /\ pc = "failed"
    /\ err = "EmptySymbol"
    /\ Len(stack) = 2
    /\ stack[2].els = <<>>
    /\ copy = <<")">>

(***************************************************************************)
(* Progress and termination.                                               *)
(***************************************************************************)
\* a measure of what a call of parse has left to do: the characters after
\* the cursor, and within one cursor position the place in the loop
Rank ==
    3 * Len(copy) + (CASE pc = "check" -> 2
                       [] pc \in {"top", "elem"} -> 1
                       [] OTHER -> 0)

\* C10: every s_parse that returns, on a number, a symbol, a string or a
\* list, returns a rest that is a strict suffix of the input it was given;
\* every turn of the loop of parse and of list_parse leaves a cursor
\* shorter than the one it started with; and a call of parse cannot run
\* for ever: each of its steps, to the return or the panic that ends it,
\* lowers a measure that is a natural number.
C10_Progress ==
    /\ [](ret # NoRet => StrictSuffix(ret.rest, ret.given))
    /\ [][ret' # ret /\ ret' # NoRet =>
              /\ ret'.given = IF pc = "check" THEN stack[Len(stack)].s ELSE copy
              /\ Len(copy') <= Len(ret'.rest)
              /\ Len(copy') < Len(copy)]_vars
    /\ [][call = "parse" /\ first' = first => Rank' < Rank]_vars

\* a list has been returned, after the elements inside it
C10_Witness ==
    /\ pc = "done"
    /\ ret.given = input
    /\ ret.parsed.tag = "SList"
    /\ Len(ret.parsed.els) = 2

(***************************************************************************)
(* Well-formed inputs and the trees they stand for, read off the notation  *)
(* of spec.md: expressions separated by whitespace; an atom that starts    *)
(* with a digit or '-' is an integer or a float literal; a list holds one  *)
(* or more expressions.  Left out, so that nothing rests on them: integer  *)
(* literals beyond i32, lists without elements, and atoms and strings with *)
(* a character of more than one byte.                                      *)
(***************************************************************************)
RefFail == [ok |-> FALSE, nodes |-> <<>>, rest |-> <<>>]

\* t without its leading whitespace
RefSkip(t) == Drop(t, Len(LongestPrefix(t, Chars \ AsciiWhitespace)))

\* the node of an atom
RefAtom(run) ==
    IF run = <<>> \/ \E i \in 1..Len(run) : Width(run[i]) > 1
    THEN [ok |-> FALSE, node |-> NoNode]
    ELSE IF Head(run) \in Digits \cup {"-"}
    THEN IF IsIntLit(run)
         THEN IF FitsI32(run)
              THEN [ok |-> TRUE, node |-> SInt(LitValue(run))]
              ELSE [ok |-> FALSE, node |-> NoNode]
         ELSE IF IsFloatLit(run)
              THEN [ok |-> TRUE, node |-> SFloat(LitFloat(run))]
              ELSE [ok |-> FALSE, node |-> NoNode]
    ELSE [ok |-> TRUE, node |-> SSym(run)]

RECURSIVE RefSeq(_, _)
\* the expressions t starts with, up to the end of t, or inside a list up
\* to its ')'; t starts with no whitespace
RefSeq(t, inList) ==
    IF t = <<>> THEN [ok |-> TRUE, nodes |-> <<>>, rest |-> <<>>]
    ELSE IF Head(t) = ")"
         THEN IF inList THEN [ok |-> TRUE, nodes |-> <<>>, rest |-> t] ELSE RefFail
    ELSE LET e == IF Head(t) = "("
                  THEN LET in == RefSeq(RefSkip(Tail(t)), TRUE)
                       IN  IF in.ok /\ in.nodes # <<>> /\ StartsWith(in.rest, ")")
                           THEN [ok |-> TRUE, nodes |-> <<SList(in.nodes)>>,
                                 rest |-> Tail(in.rest)]
                           ELSE RefFail
                  ELSE IF Head(t) = "\""
                  THEN LET body == LongestPrefix(Tail(t), {"\""})
                       IN  IF /\ Len(body) + 1 < Len(t)
                              /\ \A i \in 1..Len(body) : Width(body[i]) = 1
                           THEN [ok |-> TRUE, nodes |-> <<SStr(body)>>,
                                 rest |-> Drop(t, Len(body) + 2)]
                           ELSE RefFail
                  ELSE LET run == LongestPrefix(t, AsciiWhitespace \cup Delims)
                       IN  [ok |-> RefAtom(run).ok, nodes |-> <<RefAtom(run).node>>,
                            rest |-> Drop(t, Len(run))]
             separated ==
                  \/ e.rest = <<>>
                  \/ Head(e.rest) \in AsciiWhitespace
                  \/ inList /\ Head(e.rest) = ")"
         IN  IF e.ok /\ separated
             THEN LET more == RefSeq(RefSkip(e.rest), inList)
                  IN  [ok |-> more.ok, nodes |-> e.nodes \o more.nodes,
                       rest |-> more.rest]
             ELSE RefFail

\* t is a sequence of well-formed expressions, and the trees they stand for
WellFormed(t) == RefSeq(RefSkip(t), FALSE).ok
TreesOf(t) == RefSeq(RefSkip(t), FALSE).nodes

(***************************************************************************)
(* Whitespace and the order of the expressions.                            *)
(***************************************************************************)
\* C1: for every input of well-formed tokens and balanced parentheses,
\* parse returns the same nodes for the input and for the input with each
\* run of whitespace between tokens replaced by one space.  (Stated of the
\* nodes alone: where both calls panic nothing is said.)
C1_WhitespaceIrrelevant ==
    (call = "parse" /\ Terminated /\ first.called /\ WellFormed(first.input)) =>
        \/ first.err # "none" /\ pc = "failed"
        \/ first.err = "none" /\ pc = "done" /\ exprs = first.exprs

\* C4: for every input that is a sequence of n >= 0 well-formed expressions
\* with whitespace between and around them, parse returns n nodes, the
\* i-th the tree of the i-th expression; an empty or all-whitespace input
\* gives the empty sequence and no error.
C4_NodesInOrder ==
    (call = "parse" /\ Terminated /\ WellFormed(input)) =>
        /\ pc = "done"
        /\ exprs = TreesOf(input)

====
